---- MODULE Spec2Model ----
(***************************************************************************)
(* Verification model of atmb-us-non-cmra: the crawl of the ATMB directory *)
(* (country page -> state pages -> detail pages), the Smarty enrichment    *)
(* pass with its credential-rotating proxy, and the final save.            *)
(*                                                                         *)
(* Five specifications share the module:                                   *)
(*   SpecFetch : ATMBClient::fetch_page calls with the retry loop of       *)
(*               retry_wrapper spelled out attempt by attempt;             *)
(*   Spec      : one run of main::run with every item tracked by identity  *)
(*               (a handful of states and listings);                       *)
(*   SpecLoad  : one run of main::run with the items of each fan-out       *)
(*               counted, so that the concurrency ceilings (5, 10, 10) and *)
(*               the lookup quota (1000 per credential) are reached;       *)
(*   SpecParse : the parsers and conversions (page.rs, model.rs, smarty.rs)*)
(*               applied to texts drawn from bounded sets, a text being a  *)
(*               sequence of one-character strings.                        *)
(*   SpecFair  : Spec with every pending step of the run eventually taken, *)
(*               for the properties that say a run ends.                   *)
(***************************************************************************)
EXTENDS Integers, Sequences, FiniteSets, Bags, TLC

\* retry_wrapper(3, ...) in ATMBClient::fetch_page
RetryTimes == 3

\* .buffer_unordered(5) in fetch_state_pages
StateConcurrency == 5

\* .buffer_unordered(10) in update_street2_for_mailbox
DetailConcurrency == 10

\* .buffer_unordered(10) in inquire_mailboxes_info
InquireConcurrency == 10

\* ClientState::is_exceeded: lookups > 1000
LookupLimit == 1000

\* number of fetch_page calls followed in SpecFetch
MaxCalls == 3

\* SpecLoad: largest number of states on the country page
MaxLoadStates == 6

\* largest number of credentials in CREDENTIALS
MaxSlots == 2

\* SpecLoad: most failing items counted in one fan-out
MaxFailures == 2

\* Spec: largest number of states on the country page
MaxCrawlStates == 2

\* Spec: largest number of listings on all state pages together
MaxMailboxes == 3

\* SpecParse: most pieces an input text is put together from
MaxPieces == 4

\* SpecParse: most pieces a page is put together from
MaxHtml == 3

\* SpecParse: most sub-elements in the info block of a detail page
MaxElements == 7

\* SpecParse: most listing containers on a state page
MaxContainers == 2

\* SpecParse: most candidates in an enrichment response
MaxCandidates == 2

VARIABLES
    fetchCall,     \* SpecFetch: call id -> state of one fetch_page call
    pc,            \* where main::run is: start, country, states, details, inquire, exited
    runResult,     \* running, ok (run returned Ok), err (exit 1), panic
    saved,         \* save_records has been invoked
    lookups,       \* SmartyClientProxy.state: slot -> ClientState.lookups
    stageStates,   \* SpecLoad: progress counts of the fan-out of fetch_state_pages
    stageDetails,  \* SpecLoad: progress counts of the fan-out of update_street2_for_mailbox
    stageInquire,  \* SpecLoad: progress counts of the fan-out of inquire_mailboxes_info
    inquiries,     \* SpecLoad: SmartyClientProxy::inquire_address calls entered so far
    state_pages,   \* Spec: the futures of fetch_state_pages, by state
    mailboxes,     \* Spec: the futures of update_street2_for_mailbox, each with its mailbox
    mailboxes_info, \* Spec: the futures of inquire_mailboxes_info, each with its mailbox
    records,       \* Spec: the bag of records handed to save_records
    ret,           \* Spec: what the functions of the run have returned
    parse          \* SpecParse: the function applied, its input and its output

fetchVars == <<fetchCall>>
runVars == <<pc, runResult, saved, lookups>>
loadVars == <<stageStates, stageDetails, stageInquire, inquiries>>
crawlVars == <<state_pages, mailboxes, mailboxes_info, records, ret>>
parseVars == <<parse>>
vars == <<fetchCall, pc, runResult, saved, lookups, stageStates, stageDetails, stageInquire,
          inquiries,
          state_pages, mailboxes, mailboxes_info, records, ret, parse>>

Calls == 1..MaxCalls

(***************************************************************************)
(* utils.rs: retry_wrapper / map_to_backoff_err                            *)
(***************************************************************************)

\* map_to_backoff_err with the comparison off by one the other way
map_to_backoff_err_late(cur_times, max_times) ==
    IF cur_times > max_times + 1 THEN "permanent" ELSE "transient"

\* map_to_backoff_err that gives up one attempt early
map_to_backoff_err_early(cur_times, max_times) ==
    IF cur_times >= max_times THEN "permanent" ELSE "transient"

\* map_to_backoff_err(err, cur_times, max_times): the class of the error
map_to_backoff_err(cur_times, max_times) ==
    IF cur_times > max_times THEN "permanent" ELSE "transient"

\* a fetch_page call that has not been made yet; class is the class
\* map_to_backoff_err gave the error of the attempt that has just failed
IdleCall == [pc |-> "idle", cur_times |-> 0, requests |-> 0, class |-> "none", result |-> "none"]

\* one closure invocation of retry_wrapper: cur_times.fetch_add(1), then f()
\* sends the GET and suspends on it
BeginAttempt(call) ==
    [call EXCEPT !.pc = "request",
                 !.cur_times = call.cur_times + 1,
                 !.requests = call.requests + 1,
                 !.class = "none"]

\* fetch_page(url_path): retry_wrapper starts and runs its first attempt
FetchPage(c) ==
    /\ fetchCall[c].pc = "idle"
    /\ fetchCall' = [fetchCall EXCEPT ![c] = BeginAttempt(fetchCall[c])]
    /\ UNCHANGED <<runVars, loadVars, crawlVars, parseVars>>

\* a caller that fetches the page again when its body does not parse
AttemptOk_refetch(c) ==
    /\ fetchCall[c].pc = "request"
    /\ \E parsed \in {"page", "parse_err"} :
          fetchCall' = [fetchCall EXCEPT
                          ![c].pc = IF parsed = "page" THEN "done" ELSE "sleep",
                          ![c].result = parsed]
    /\ UNCHANGED <<runVars, loadVars, crawlVars, parseVars>>

\* send() and text() both succeed: retry returns Ok(body), fetch_page returns
\* it, and the caller parses the body in the same poll (parse_html is
\* synchronous); the page content decides whether the parse succeeds
AttemptOk(c) ==
    /\ fetchCall[c].pc = "request"
    /\ \E parsed \in {"page", "parse_err"} :
          fetchCall' = [fetchCall EXCEPT ![c].pc = "done", ![c].result = parsed]
    /\ UNCHANGED <<runVars, loadVars, crawlVars, parseVars>>

\* send() or text() fails: the error is classified by map_to_backoff_err.
\* A permanent error ends the call.  A transient one is retried after the
\* backoff delay unless ExponentialBackoff::next_backoff() has run out
\* (max_elapsed_time of Default::default()), in which case retry returns it.
AttemptErr(c) ==
    /\ fetchCall[c].pc = "request"
    /\ LET class == map_to_backoff_err(fetchCall[c].cur_times, RetryTimes) IN
       \/ /\ class = "permanent"
          /\ fetchCall' = [fetchCall EXCEPT ![c].pc = "done", ![c].class = class,
                                             ![c].result = "fetch_err"]
       \/ /\ class = "transient"
          /\ \E elapsed \in BOOLEAN :
                fetchCall' = [fetchCall EXCEPT
                                ![c].pc = IF elapsed THEN "done" ELSE "sleep",
                                ![c].class = class,
                                ![c].result = IF elapsed THEN "fetch_err" ELSE "none"]
    /\ UNCHANGED <<runVars, loadVars, crawlVars, parseVars>>

\* the backoff delay is over: retry invokes the closure again
Wake(c) ==
    /\ fetchCall[c].pc = "sleep"
    /\ fetchCall' = [fetchCall EXCEPT ![c] = BeginAttempt(fetchCall[c])]
    /\ UNCHANGED <<runVars, loadVars, crawlVars, parseVars>>

NextFetch ==
    \/ \E c \in Calls : FetchPage(c)
    \/ \E c \in Calls : AttemptOk(c)
    \/ \E c \in Calls : AttemptErr(c)
    \/ \E c \in Calls : Wake(c)

(***************************************************************************)
(* smarty.rs: SmartyClientProxy                                            *)
(***************************************************************************)

\* the panic of get_client_id ("all clients are exceeded")
NoClient == -1

\* is_exceeded with >= in place of >
is_exceeded_at_limit(lookups_used) == lookups_used >= LookupLimit

\* ClientState::is_exceeded
is_exceeded(lookups_used) == lookups_used > LookupLimit

\* get_client_id that falls back to the last slot instead of panicking
get_client_id_fallback(state) ==
    LET free == {i \in DOMAIN state : ~is_exceeded(state[i])} IN
    IF free = {} THEN Cardinality(DOMAIN state) - 1
    ELSE CHOOSE i \in free : \A j \in free : i <= j

\* SmartyClientProxy::get_client_id: the first slot, in configured order,
\* that is not exceeded; slots are numbered from 0 as in the Vec
get_client_id(state) ==
    LET free == {i \in DOMAIN state : ~is_exceeded(state[i])} IN
    IF free = {} THEN NoClient
    ELSE CHOOSE i \in free : \A j \in free : i <= j

\* update_state that counts the call on every slot
update_state_all(state, idx) == [i \in DOMAIN state |-> state[i] + 1]

\* update_state that writes the counter only while it is below the limit
update_state_saturating(state, idx) ==
    [state EXCEPT ![idx] = IF @ < LookupLimit THEN @ + 1 ELSE @]

\* SmartyClientProxy::update_state
update_state(state, idx) == [state EXCEPT ![idx] = @ + 1]

\* SmartyClientProxy::next_client: selection and increment, with no await
\* between them; idx = NoClient when get_client_id panics
next_client(state) ==
    LET idx == get_client_id(state) IN
    IF idx = NoClient THEN [idx |-> NoClient, state |-> state]
    ELSE [idx |-> idx, state |-> update_state(state, idx)]

\* SmartyClientProxy::new: one ClientState::default() per credential
NewState(nslots) == [i \in 0..(nslots - 1) |-> 0]

(***************************************************************************)
(* futures::StreamExt::buffer_unordered(max).collect(), by counts          *)
(***************************************************************************)

Min(a, b) == IF a < b THEN a ELSE b

\* a fan-out over total items, none of them started
FanNew(total) == [total |-> total, started |-> 0, inflight |-> 0, ok |-> 0, err |-> 0]

\* a fill that takes every remaining item of the stream, whatever max is
BufferFillAll(fan, max) == fan.total - fan.started

\* how many futures one poll takes from the stream: it fills the buffer up
\* to max in-flight futures
BufferFill(fan, max) == Min(max - fan.inflight, fan.total - fan.started)

\* k more futures taken from the stream and polled up to their first await
FanFill(fan, k) == [fan EXCEPT !.started = @ + k, !.inflight = @ + k]

\* one in-flight future has completed and its output has been collected
FanFinish(fan, isOk) ==
    [fan EXCEPT !.inflight = @ - 1,
                !.ok = IF isOk THEN @ + 1 ELSE @,
                !.err = IF isOk THEN @ ELSE @ + 1]

\* the stream is exhausted and nothing is in flight: collect() returns
FanDone(fan) == fan.started = fan.total /\ fan.inflight = 0

\* the first poll of k inquiry futures, one after the other: each runs
\* SmartyClientProxy::inquire_address up to the await of the remote call
RECURSIVE StartInquiries(_, _, _)
StartInquiries(state, k, started) ==
    IF k = 0 THEN [state |-> state, started |-> started, panicked |-> FALSE]
    ELSE LET r == next_client(state) IN
         IF r.idx = NoClient
         THEN [state |-> state, started |-> started, panicked |-> TRUE]
         ELSE StartInquiries(r.state, k - 1, started + 1)

\* the inquire_address calls entered by StartInquiries: those that went on
\* to the remote call and the one, if any, that panicked in get_client_id
Entered(r) == r.started + (IF r.panicked THEN 1 ELSE 0)

(***************************************************************************)
(* main.rs: how a run ends                                                 *)
(***************************************************************************)

\* an error exit that invokes save_records on its way out
ExitErr_saving ==
    /\ pc' = "exited"
    /\ runResult' = "err"
    /\ saved' = TRUE

\* run returns Err out of a ?: main logs it and calls exit(1)
ExitErr ==
    /\ pc' = "exited"
    /\ runResult' = "err"
    /\ saved' = saved

\* a panic unwinds out of run and main: the process ends without any
\* further step
Panic ==
    /\ pc' = "exited"
    /\ runResult' = "panic"
    /\ saved' = saved

\* the filter on is_cmra, then save_records, which may fail on I/O
SaveAndExit ==
    /\ pc' = "exited"
    /\ saved' = TRUE
    /\ \E written \in BOOLEAN : runResult' = IF written THEN "ok" ELSE "err"

(***************************************************************************)
(* SpecLoad: main::run with the items of each fan-out counted              *)
(***************************************************************************)

\* the numbers of listings the crawl may find in total
MailboxTotals ==
    {0, 1, DetailConcurrency + 1,
     (LookupLimit + 1) * MaxSlots, (LookupLimit + 1) * MaxSlots + 1}

\* run: ATMBCrawl::new, then ATMBCrawl::fetch up to the await of the
\* country page
Run ==
    /\ pc = "start"
    /\ \E built \in BOOLEAN :
          IF built THEN pc' = "country" /\ UNCHANGED <<runResult, saved>>
          ELSE ExitErr
    /\ UNCHANGED <<fetchVars, parseVars, lookups, loadVars, crawlVars>>

\* inquire_mailboxes_info(mailboxes) up to its first await: the proxy is
\* built from CREDENTIALS and the first futures are started
LoadEnterInquire(total) ==
    \/ /\ Panic
       /\ UNCHANGED <<lookups, stageInquire, inquiries>>
    \/ /\ ExitErr
       /\ UNCHANGED <<lookups, stageInquire, inquiries>>
    \/ \E nslots \in 1..MaxSlots :
          LET fan0 == FanNew(total)
              r == StartInquiries(NewState(nslots), BufferFill(fan0, InquireConcurrency), 0)
              fan1 == FanFill(fan0, r.started)
          IN  /\ lookups' = r.state
              /\ stageInquire' = fan1
              /\ inquiries' = inquiries + Entered(r)
              /\ IF r.panicked THEN Panic
                 ELSE IF FanDone(fan1) THEN SaveAndExit
                 ELSE pc' = "inquire" /\ UNCHANGED <<runResult, saved>>

\* update_street2_for_mailbox(mailboxes) up to its first await; with no
\* mailbox it returns at once and run goes on to the enrichment
LoadEnterDetails(total) ==
    LET fan1 == FanFill(FanNew(total), BufferFill(FanNew(total), DetailConcurrency)) IN
    /\ stageDetails' = fan1
    /\ IF FanDone(fan1) THEN LoadEnterInquire(total)
       ELSE pc' = "details" /\ UNCHANGED <<runResult, saved, lookups, stageInquire, inquiries>>

\* the country page has been fetched (or not) and parsed (or not);
\* fetch_state_pages starts the first state futures
LoadCountryPage ==
    /\ pc = "country"
    /\ \/ /\ ExitErr
          /\ UNCHANGED stageStates
       \/ \E n \in 1..MaxLoadStates :
             /\ stageStates' = FanFill(FanNew(n), BufferFill(FanNew(n), StateConcurrency))
             /\ pc' = "states"
             /\ UNCHANGED <<runResult, saved>>
    /\ UNCHANGED <<fetchVars, parseVars, crawlVars, lookups, stageDetails, stageInquire, inquiries>>

\* one state future completes (page fetched and parsed, or an error); the
\* buffer is refilled; after the last one fetch_state_pages returns, and
\* fetch converts the pages and compares the counts
LoadStatePageDone ==
    /\ pc = "states"
    /\ stageStates.inflight > 0
    /\ \E isOk \in BOOLEAN :
          LET fan1 == FanFinish(stageStates, isOk)
              fan2 == FanFill(fan1, BufferFill(fan1, StateConcurrency))
          IN  /\ stageStates' = fan2
              /\ IF ~FanDone(fan2)
                 THEN UNCHANGED <<pc, runResult, saved, lookups, stageDetails, stageInquire, inquiries>>
                 ELSE IF fan2.err # 0
                 THEN ExitErr /\ UNCHANGED <<lookups, stageDetails, stageInquire, inquiries>>
                 ELSE \E total \in MailboxTotals, converted \in BOOLEAN :
                         IF total # 0 /\ ~converted
                         THEN ExitErr /\ UNCHANGED <<lookups, stageDetails, stageInquire, inquiries>>
                         ELSE LoadEnterDetails(total)
    /\ UNCHANGED <<fetchVars, parseVars, crawlVars>>

\* one detail future completes; the buffer is refilled; after the last one
\* update_street2_for_mailbox returns and run goes on to the enrichment
LoadDetailPageDone ==
    /\ pc = "details"
    /\ stageDetails.inflight > 0
    /\ \E isOk \in BOOLEAN :
          /\ ~isOk => stageDetails.err < MaxFailures
          /\ LET fan1 == FanFinish(stageDetails, isOk)
                 fan2 == FanFill(fan1, BufferFill(fan1, DetailConcurrency))
             IN  /\ stageDetails' = fan2
                 /\ IF ~FanDone(fan2)
                    THEN UNCHANGED <<pc, runResult, saved, lookups, stageInquire, inquiries>>
                    ELSE IF fan2.err # 0
                    THEN ExitErr /\ UNCHANGED <<lookups, stageInquire, inquiries>>
                    ELSE LoadEnterInquire(fan2.total)
    /\ UNCHANGED <<fetchVars, parseVars, crawlVars, stageStates>>

\* one inquiry completes (Ok(info) or Err) and its output is collected; the
\* buffer is refilled, which selects a slot for the new call or panics;
\* after the last one inquire_mailboxes_info returns Ok and run saves
LoadInquireDone ==
    /\ pc = "inquire"
    /\ stageInquire.inflight > 0
    /\ \E isOk \in BOOLEAN :
          /\ ~isOk => stageInquire.err < MaxFailures
          /\ LET fan1 == FanFinish(stageInquire, isOk)
                 r == StartInquiries(lookups, BufferFill(fan1, InquireConcurrency), 0)
                 fan2 == FanFill(fan1, r.started)
             IN  /\ lookups' = r.state
                 /\ stageInquire' = fan2
                 /\ inquiries' = inquiries + Entered(r)
                 /\ IF r.panicked THEN Panic
                    ELSE IF FanDone(fan2) THEN SaveAndExit
                    ELSE UNCHANGED <<pc, runResult, saved>>
    /\ UNCHANGED <<fetchVars, parseVars, crawlVars, stageStates, stageDetails>>

NextLoad ==
    \/ Run
    \/ LoadCountryPage
    \/ LoadStatePageDone
    \/ LoadDetailPageDone
    \/ LoadInquireDone

(***************************************************************************)
(* Texts: a &str is a sequence of one-character strings.  The operators    *)
(* below are those of std::str the parsers use.                            *)
(***************************************************************************)

\* Option::None
None == << >>

\* Option::Some(x)
Some(x) == <<x>>

\* the element of a one-element set: The({e(x) : x \in {v}}) is e(v) with
\* v computed once
The(S) == CHOOSE x \in S : TRUE

\* the pattern pat occurs in s at position i
MatchesAt(s, pat, i) ==
    /\ i + Len(pat) - 1 <= Len(s)
    /\ \A n \in 1..Len(pat) : s[i + n - 1] = pat[n]

\* the position of the first occurrence of pat in s at or after i, 0 if none
RECURSIVE Find(_, _, _)
Find(s, pat, i) ==
    IF i + Len(pat) - 1 > Len(s) THEN 0
    ELSE IF MatchesAt(s, pat, i) THEN i
    ELSE Find(s, pat, i + 1)

\* str::split(pat), collected: the segments between the occurrences of pat,
\* found from left to right without overlap.  SplitAt is the step for a
\* text whose first occurrence of pat is at i (0: none); Split binds its
\* text as a value, so that the text is computed once at each step
RECURSIVE Split(_, _)
SplitAt(s, pat, i) ==
    IF i = 0 THEN <<s>>
    ELSE <<SubSeq(s, 1, i - 1)>> \o Split(SubSeq(s, i + Len(pat), Len(s)), pat)

Split(s, pat) == CHOOSE segments \in {SplitAt(t, pat, Find(t, pat, 1)) : t \in {s}} : TRUE

\* str::replace(pat, ""): every occurrence of pat removed, in one pass from
\* left to right; the steps as for Split
RECURSIVE Remove(_, _)
RemoveAt(s, pat, i) ==
    IF i = 0 THEN s
    ELSE SubSeq(s, 1, i - 1) \o Remove(SubSeq(s, i + Len(pat), Len(s)), pat)

Remove(s, pat) == CHOOSE rest \in {RemoveAt(t, pat, Find(t, pat, 1)) : t \in {s}} : TRUE

\* char::is_whitespace, for the characters used here
Whitespace == {" ", "\t", "\n"}

\* str::trim_start
RECURSIVE TrimStart(_)
TrimStart(s) ==
    IF s # << >> /\ Head(s) \in Whitespace THEN TrimStart(Tail(s)) ELSE s

\* str::trim_end
RECURSIVE TrimEnd(_)
TrimEnd(s) ==
    IF s # << >> /\ s[Len(s)] \in Whitespace THEN TrimEnd(SubSeq(s, 1, Len(s) - 1)) ELSE s

\* str::trim
Trim(s) == TrimEnd(TrimStart(s))

\* the texts put together from at most n of the given pieces
RECURSIVE Concats(_, _)
Concats(pieces, n) ==
    IF n = 0 THEN {<< >>}
    ELSE {s \o p : s \in Concats(pieces, n - 1), p \in pieces \cup {<< >>}}

\* a function of SpecParse with its input, not applied yet
ParseInput(kind, in) == [kind |-> kind, in |-> in, out |-> << >>, done |-> FALSE]

\* no function of SpecParse is in use
NoParse == ParseInput("none", << >>)

\* SpecParse: the function of the given kind is applied to the input
Apply(kind, out) ==
    /\ parse.kind = kind
    /\ ~parse.done
    /\ parse' = [parse EXCEPT !.out = out, !.done = TRUE]
    /\ UNCHANGED <<fetchVars, runVars, loadVars, crawlVars>>

(***************************************************************************)
(* atmb/page.rs: CountryPage::parse_html.  The page is a sequence of       *)
(* lexemes: the three literals of STATE_LIST_REG, the line feed, which     *)
(* "." does not match, and other characters.                               *)
(***************************************************************************)

\* STATE_LIST_REG: <a class='theme-simple-link' href='(.*?)'>(.*?)</a>
AnchorOpen == "<a class='theme-simple-link' href='"
HrefClose == "'>"
AnchorClose == "</a>"
LineFeed == "\n"

\* the first place at or after i where html holds one of the lexemes, 0 if
\* there is none
RECURSIVE FirstOf(_, _, _)
FirstOf(html, lexemes, i) ==
    IF i > Len(html) THEN 0
    ELSE IF html[i] \in lexemes THEN i
    ELSE FirstOf(html, lexemes, i + 1)

\* the match of STATE_LIST_REG that starts at i: each lazy group ends at the
\* first literal that follows it, and no group holds a line feed
MatchAt(html, i) ==
    IF html[i] # AnchorOpen THEN None
    ELSE LET j == FirstOf(html, {HrefClose, LineFeed}, i + 1) IN
         IF j = 0 \/ html[j] = LineFeed THEN None
         ELSE LET k == FirstOf(html, {AnchorClose, LineFeed}, j + 1) IN
              IF k = 0 \/ html[k] = LineFeed THEN None
              ELSE Some([sub_url |-> SubSeq(html, i + 1, j - 1),
                         name |-> SubSeq(html, j + 1, k - 1),
                         end |-> k])

\* Regex::captures_iter: the matches from left to right, each search
\* starting after the end of the match before
RECURSIVE captures_iter(_, _)
captures_iter(html, i) ==
    IF i > Len(html) THEN << >>
    ELSE LET caps == MatchAt(html, i) IN
         IF caps = None THEN captures_iter(html, i + 1)
         ELSE <<[sub_url |-> caps[1].sub_url, name |-> caps[1].name]>>
              \o captures_iter(html, caps[1].end + 1)

\* parse_html without the check for an empty list
CountryPage_parse_html_unguarded(html) ==
    [ok |-> TRUE, val |-> captures_iter(html, 1)]

\* CountryPage::parse_html: one StateHtmlInfo per match (caps.len() is 3 for
\* every match of this expression), an error when there is none
CountryPage_parse_html(html) ==
    LET states == captures_iter(html, 1) IN
    IF states = << >> THEN [ok |-> FALSE, val |-> << >>]
    ELSE [ok |-> TRUE, val |-> states]

\* a link to a state, as the country page holds it
StateAnchor(n) == <<AnchorOpen, "/", n, HrefClose, n, AnchorClose>>

\* the country pages parse_html is applied to
CountryPages ==
    Concats({StateAnchor("a"), StateAnchor("b"), <<AnchorOpen>>, <<HrefClose>>,
             <<AnchorClose>>, <<LineFeed>>, <<"x">>}, MaxHtml)

ApplyCountryPage == Apply("country_page", CountryPage_parse_html(parse.in))

(***************************************************************************)
(* atmb/page.rs: StatePage::split_address                                  *)
(***************************************************************************)

\* "<br>"
BR == <<"<", "b", "r", ">">>

\* split_address that takes the first and the last segment
split_address_last(address) ==
    LET segments == Split(address, BR) IN
    IF Len(segments) < 2 THEN None
    ELSE Some(<<segments[1], segments[Len(segments)]>>)

\* StatePage::split_address: split("<br>").take(2), then two next()?
split_address(address) ==
    LET segments == Split(address, BR) IN
    IF Len(segments) < 2 THEN None
    ELSE Some(<<segments[1], segments[2]>>)

\* the address blocks split_address is applied to
AddressBlocks == Concats({BR, <<"1">>, <<"<", "b">>, <<"r", ">">>}, MaxPieces)

ApplySplitAddress == Apply("split_address", split_address(parse.in))

(***************************************************************************)
(* atmb/page.rs: LocationHtmlInfo, the parsers of the second address line  *)
(* and of the price                                                        *)
(***************************************************************************)

\* ","
Comma == <<",">>

\* " "
Space == <<" ">>

\* "-"
Hyphen == <<"-">>

\* "Starting from"
StartingFrom == <<"S", "t", "a", "r", "t", "i", "n", "g", " ", "f", "r", "o", "m">>

\* LocationHtmlInfo::parse_city: split(",").next()
parse_city(location) == Some(Split(location.line2, Comma)[1])

\* parse_state without the trim
parse_state_untrimmed(location) ==
    The({IF Len(segments) < 2 THEN None
         ELSE Some(Split(segments[2], Space)[1]) :
            segments \in {Split(location.line2, Comma)}})

\* LocationHtmlInfo::parse_state: the segment after the first comma,
\* trimmed, then split(" ").next()
parse_state(location) ==
    The({IF Len(segments) < 2 THEN None
         ELSE Some(Split(Trim(segments[2]), Space)[1]) :
            segments \in {Split(location.line2, Comma)}})

\* try_split_zip: split("-"), zip = next()?, zip4 = next()
try_split_zip(zip_str) ==
    The({Some(<<segments[1], IF Len(segments) >= 2 THEN Some(segments[2]) ELSE None>>) :
            segments \in {Split(zip_str, Hyphen)}})

\* LocationHtmlInfo::parse_zip: the segment after the first comma, trimmed,
\* then split(" ").skip(1).next(), then try_split_zip
parse_zip(location) ==
    The({IF Len(segments) < 2 THEN None
         ELSE The({IF Len(tokens) < 2 THEN None ELSE try_split_zip(tokens[2]) :
                      tokens \in {Split(Trim(segments[2]), Space)}}) :
            segments \in {Split(location.line2, Comma)}})

\* price that removes the phrase only
price_keep_blanks(location) == Remove(location.price, StartingFrom)

\* LocationHtmlInfo::price: replace("Starting from", "").replace(" ", "")
price(location) == Remove(Remove(location.price, StartingFrom), Space)

(***************************************************************************)
(* atmb/page.rs, atmb/model.rs: listings and mailboxes.  The second        *)
(* address line and the price are texts; the other fields, which no        *)
(* function takes apart, are opaque values.  Every field is tagged with    *)
(* the state s and the position j of the listing it comes from, so that    *)
(* every field of every listing is distinct.                               *)
(***************************************************************************)

\* super::BASE_URL
BASE_URL == "https://www.anytimemailbox.com"

\* the decimal digits
Digits == <<"0", "1", "2", "3", "4", "5", "6", "7", "8", "9">>

\* the digit of a number below ten
Digit(n) == Digits[n + 1]

\* the second address line of listing j of state s: "Cj, Ss 1sj" with
\* "-6789" after it for an even j; without the zip when the listing is bad
Line2Of(s, j, good) ==
    <<"C", Digit(j), ",", " ", "S", Digit(s)>>
    \o (IF good THEN <<" ", "1", Digit(s), Digit(j)>> ELSE << >>)
    \o (IF good /\ j % 2 = 0 THEN <<"-", "6", "7", "8", "9">> ELSE << >>)

\* the price text of listing j of state s: "Starting from $ s.j"
PriceOf(s, j) == StartingFrom \o <<" ", "$", " ", Digit(s), ".", Digit(j)>>

\* StatePage::parse_html: the LocationHtmlInfo pushed for listing j of the
\* page of state s
LocationHtmlInfo(s, j, good) ==
    [name  |-> <<"title", s, j>>,
     line1 |-> <<"card line", s, j>>,
     line2 |-> Line2Of(s, j, good),
     price |-> PriceOf(s, j),
     link  |-> <<BASE_URL, s, j>>]

\* TryInto<Address> for LocationHtmlInfo: parse_zip, parse_city and
\* parse_state, each with ok_or_else(..)?
TryIntoAddress(location) ==
    The({IF zip = None \/ city = None \/ state = None THEN [ok |-> FALSE, val |-> None]
         ELSE [ok |-> TRUE,
               val |-> [line1 |-> location.line1,
                        city |-> city[1],
                        state |-> state[1],
                        zip |-> zip[1][1],
                        zip4 |-> zip[1][2]]] :
            zip \in {parse_zip(location)},
            city \in {parse_city(location)},
            state \in {parse_state(location)}})

\* a listing container (div.theme-location-item) of a state page: what the
\* selectors find in it.  title and price are the text of the first match or
\* None, address the inner_html of the first match or None, plan is None
\* without a plan button, Some(None) for a button without href, and
\* Some(Some(href)) otherwise
Container(j, defect) ==
    [title   |-> IF defect = "title" THEN None ELSE Some(<<"title", j>>),
     price   |-> IF defect = "price" THEN None ELSE Some(PriceOf(1, j)),
     address |-> IF defect = "address" THEN None
                 ELSE IF defect = "split" THEN Some(<<"1", " ", "S", "t">>)
                 ELSE Some(<<"1", " ", "S", "t">> \o BR \o Line2Of(1, j, TRUE) \o BR),
     plan    |-> IF defect = "plan" THEN None
                 ELSE IF defect = "href" THEN Some(None)
                 ELSE Some(Some(<<1, j>>))]

\* what may be wrong with a listing container
Defects == {"none", "title", "price", "address", "split", "plan", "href"}

\* the body of the loop of StatePage::parse_html for one container: the
\* LocationHtmlInfo, or the error of the first ? that fails
ParseContainer(location_fragment) ==
    IF location_fragment.title = None THEN [ok |-> FALSE, val |-> "No title found"]
    ELSE IF location_fragment.price = None THEN [ok |-> FALSE, val |-> "No price found"]
    ELSE IF location_fragment.address = None THEN [ok |-> FALSE, val |-> "No address found"]
    ELSE IF split_address(location_fragment.address[1]) = None
         THEN [ok |-> FALSE, val |-> "Failed to split address"]
    ELSE IF location_fragment.plan = None THEN [ok |-> FALSE, val |-> "No plan button found"]
    ELSE IF location_fragment.plan[1] = None THEN [ok |-> FALSE, val |-> "No plan link found"]
    ELSE [ok |-> TRUE,
          val |-> [name  |-> location_fragment.title[1],
                   line1 |-> split_address(location_fragment.address[1])[1][1],
                   line2 |-> split_address(location_fragment.address[1])[1][2],
                   price |-> location_fragment.price[1],
                   link  |-> <<BASE_URL>> \o location_fragment.plan[1][1]]]

\* StatePage::parse_html: the loop over the containers; the ? in its body
\* returns from parse_html, so the first container that fails makes the
\* whole page an Err
StatePage_parse_html(containers) ==
    IF \A j \in DOMAIN containers : ParseContainer(containers[j]).ok
    THEN [ok |-> TRUE, locations |-> [j \in DOMAIN containers |-> ParseContainer(containers[j]).val]]
    ELSE [ok |-> FALSE, locations |-> << >>]

\* the state pages parse_html is applied to: up to MaxContainers containers,
\* each complete or with one defect
StatePages ==
    UNION {{[j \in 1..n |-> Container(j, d[j])] : d \in [1..n -> Defects]} : n \in 0..MaxContainers}

ApplyStatePage == Apply("state_page", StatePage_parse_html(parse.in))

\* the non-empty lines of the info block of a detail page, in order
NonEmptyLines(block) == SelectSeq(block, LAMBDA line : line # << >>)

\* parse_html of the detail page that takes the lines from the first one on
LocationDetailPage_parse_html_from_first(block) ==
    LET lines == NonEmptyLines(block)
        n == Len(lines)
    IN  IF n = 4 THEN [ok |-> TRUE, street |-> Some(lines[1])]
        ELSE IF n = 5 THEN [ok |-> TRUE, street |-> Some(lines[1] \o Space \o lines[2])]
        ELSE IF n = 6
             THEN [ok |-> TRUE, street |-> Some(lines[1] \o Space \o lines[2] \o Space \o lines[3])]
        ELSE [ok |-> FALSE, street |-> None]

\* LocationDetailPage::parse_html and street(): the street by the number of
\* non-empty lines of the info block.  line[k] of the description, counted
\* from 0, is lines[k + 1] here
LocationDetailPage_parse_html(block) ==
    LET lines == NonEmptyLines(block)
        n == Len(lines)
    IN  IF n = 4 THEN [ok |-> TRUE, street |-> Some(lines[2])]
        ELSE IF n = 5 THEN [ok |-> TRUE, street |-> Some(lines[2] \o Space \o lines[3])]
        ELSE IF n = 6
             THEN [ok |-> TRUE, street |-> Some(lines[2] \o Space \o lines[3] \o Space \o lines[4])]
        ELSE [ok |-> FALSE, street |-> None]

\* the info blocks parse_html is applied to: up to MaxElements
\* sub-elements, each empty or with one of two texts
InfoBlocks ==
    UNION {[1..n -> {<< >>, <<"A">>, <<"B", "2">>}] : n \in 0..MaxElements}

ApplyDetailPage == Apply("detail_page", LocationDetailPage_parse_html(parse.in))

\* test::new_location_info, with the given second address line and price
new_location_info(line2, price_text) ==
    [name  |-> <<"T", "e", "s", "t">>,
     line1 |-> <<"1", "2", "3", " ", "M", "a", "i", "n", " ", "S", "t">>,
     line2 |-> line2,
     price |-> price_text,
     link  |-> <<"w", "h", "a", "t", "e", "v", "e", "r">>]

\* "City, ST 12345"
TestLine2 == <<"C", "i", "t", "y", ",", " ", "S", "T", " ", "1", "2", "3", "4", "5">>

\* "Starting from US$ 9.99 / month"
TestPrice ==
    StartingFrom \o <<" ", "U", "S", "$", " ", "9", ".", "9", "9", " ", "/", " ",
                      "m", "o", "n", "t", "h">>

\* the price texts price() is applied to
PriceTexts ==
    {TestPrice} \cup Concats({StartingFrom, Space, <<"\t">>, <<"$">>, <<"9">>}, MaxPieces)

\* the parts the second address lines are put together from
Cities == {<<"C">>, <<"C", " ", "C">>}
States == {<<"S">>}
Zips == {<<"1", "2", "3", "4", "5">>, <<"1">>}
Exts == {<<"6", "7", "8", "9">>, <<"6", "7">>}

\* the second address lines the conversion is applied to: the shapes
\* "C, S Z" and "C, S Z-E" next to lines with a part missing, doubled or
\* followed by more text
Line2Texts ==
    {city \o comma \o lead \o state \o gap \o zip \o ext \o rest :
        city \in Cities \cup {<< >>},
        comma \in {Comma, << >>},
        lead \in {Space, << >>},
        state \in States \cup {<< >>},
        gap \in {Space, <<" ", " ">>, << >>},
        zip \in Zips \cup {<< >>},
        ext \in {Hyphen \o e : e \in Exts} \cup {<< >>, Hyphen},
        rest \in {<< >>, Space, <<",", " ", "X">>, <<" ", "X">>}}

ApplyPrice == Apply("price", price(parse.in))

ApplyTryIntoAddress == Apply("try_into_address", TryIntoAddress(parse.in))

\* TryInto<Mailbox> for LocationHtmlInfo
TryIntoMailbox(location) ==
    The({IF ~address.ok THEN [ok |-> FALSE, val |-> None]
         ELSE [ok |-> TRUE,
               val |-> [name |-> location.name,
                        address |-> address.val,
                        link |-> location.link,
                        price |-> price(location)]] :
            address \in {TryIntoAddress(location)}})

\* StatePage::to_mailboxes: collect() into a Result, so one listing that
\* does not convert makes the whole page an Err
to_mailboxes(locations) ==
    The({IF \A j \in DOMAIN converted : converted[j].ok
         THEN [ok |-> TRUE, val |-> [j \in DOMAIN converted |-> converted[j].val]]
         ELSE [ok |-> FALSE, val |-> << >>] :
            converted \in {[j \in DOMAIN locations |-> TryIntoMailbox(locations[j])]}})

(***************************************************************************)
(* buffer_unordered(max).collect() over tasks tracked one by one.  A task  *)
(* is a record whose st is "pending" (still in the stream), "inflight"     *)
(* (polled, suspended on its request) or an outcome.                       *)
(***************************************************************************)

\* the counts of a sequence of tasks, as FanNew / FanFill keep them
FanOf(tasks) ==
    [total |-> Len(tasks),
     started |-> Cardinality({i \in DOMAIN tasks : tasks[i].st # "pending"}),
     inflight |-> Cardinality({i \in DOMAIN tasks : tasks[i].st = "inflight"}),
     ok |-> 0, err |-> 0]

\* the stream yields its items in order: the next one is the first pending
FirstPending(tasks) ==
    CHOOSE i \in DOMAIN tasks :
        /\ tasks[i].st = "pending"
        /\ \A j \in DOMAIN tasks : tasks[j].st = "pending" => i <= j

\* the next k futures are taken from the stream and polled once
RECURSIVE StartTasks(_, _)
StartNext(tasks, k) ==
    IF k = 0 THEN tasks
    ELSE StartTasks([tasks EXCEPT ![FirstPending(tasks)].st = "inflight"], k - 1)
StartTasks(tasks, k) == CHOOSE started \in {StartNext(t, k) : t \in {tasks}} : TRUE

\* one poll of the buffered stream: refill up to max
Refill(tasks, max) == StartTasks(tasks, BufferFill(FanOf(tasks), max))

\* a collect() that returns with the first output
AllDone_first(tasks) == \E i \in DOMAIN tasks : tasks[i].st \notin {"pending", "inflight"}

\* collect() has every output: nothing pending, nothing in flight
AllDone(tasks) == \A i \in DOMAIN tasks : tasks[i].st \notin {"pending", "inflight"}

(***************************************************************************)
(* atmb/mod.rs: ATMBCrawl::fetch, stages A and B                           *)
(***************************************************************************)

\* what the functions of the run have returned so far
NoReturn ==
    [fetch_state_pages |-> "none", pages |-> 0,
     fetch |-> "none",
     update_street2_for_mailbox |-> "none", updated |-> << >>,
     inquire_mailboxes_info |-> "none", infos |-> {}]

\* the tail of fetch_state_pages that also returns when some state failed,
\* with the pages it has
fetch_state_pages_lenient(tasks) ==
    [ok |-> TRUE,
     val |-> {i \in DOMAIN tasks : tasks[i].st = "page"}]

\* the tail of fetch_state_pages: bail if any state page is an Err, else
\* the pages (here the indices of their tasks)
fetch_state_pages_result(tasks) ==
    IF Cardinality({i \in DOMAIN tasks : tasks[i].st # "page"}) # 0
    THEN [ok |-> FALSE, val |-> {}]
    ELSE [ok |-> TRUE, val |-> DOMAIN tasks]

\* total_num: the sum of sp.len() over the pages
RECURSIVE total_num(_, _)
total_num(tasks, pages) ==
    IF pages = {} THEN 0
    ELSE LET i == CHOOSE p \in pages : TRUE IN
         Len(tasks[i].locations) + total_num(tasks, pages \ {i})

\* the mailboxes of fetch: filter_map drops the pages whose to_mailboxes is
\* an Err, flatten concatenates the others
RECURSIVE flatten_mailboxes(_, _, _)
flatten_mailboxes(tasks, pages, i) ==
    IF i > Len(tasks) THEN << >>
    ELSE The({IF i \in pages /\ page.ok THEN page.val ELSE << >> :
                 page \in {to_mailboxes(tasks[i].locations)}})
         \o flatten_mailboxes(tasks, pages, i + 1)

\* the count check of fetch with > in place of !=
count_mismatch_less(len, total) == len > total

\* the count check of fetch: mailboxes.len() != total_num
count_mismatch(len, total) == len # total

(***************************************************************************)
(* atmb/mod.rs: stage C, update_street2_for_mailbox                        *)
(***************************************************************************)

\* the stream of update_street2_for_mailbox: one future per mailbox, each
\* owning its mailbox
DetailTasks(mbs) == [i \in DOMAIN mbs |-> [mailbox |-> mbs[i], st |-> "pending"]]

\* LocationDetailPage::street() of the page behind a link
DetailStreet(link) == <<"street", link>>

\* the assignment of the detail future, writing the city as well
update_street_and_city(mailbox, street) ==
    [mailbox EXCEPT !.address.line1 = street, !.address.city = street]

\* mailbox.address.line1 = detail_page.street()
update_street(mailbox, street) == [mailbox EXCEPT !.address.line1 = street]

\* suc_list: the mailboxes of the futures that returned Ok
RECURSIVE suc_list(_, _)
suc_list(tasks, i) ==
    IF i > Len(tasks) THEN << >>
    ELSE (IF tasks[i].st = "ok" THEN <<tasks[i].mailbox>> ELSE << >>)
         \o suc_list(tasks, i + 1)

\* the tail of update_street2_for_mailbox that drops the failed items
update_street2_lenient(tasks) == [ok |-> TRUE, val |-> suc_list(tasks, 1)]

\* the tail of update_street2_for_mailbox: bail if err_list is not empty
update_street2_result(tasks) ==
    IF {i \in DOMAIN tasks : tasks[i].st # "ok"} # {}
    THEN [ok |-> FALSE, val |-> << >>]
    ELSE [ok |-> TRUE, val |-> suc_list(tasks, 1)]

(***************************************************************************)
(* main.rs, smarty.rs, record.rs: the enrichment pass and the records      *)
(***************************************************************************)

\* the AdditionalInfo values the service answers with
Infos ==
    {[cmra |-> "Y", rdi |-> "Commercial"],
     [cmra |-> "N", rdi |-> "Residential"],
     [cmra |-> "N", rdi |-> "Unknown"]}

\* no answer yet
NoInfo == [cmra |-> "", rdi |-> ""]

\* is_cmra with the test inverted
is_cmra_inverted(info) == info.cmra = "N"

\* AdditionalInfo::is_cmra
is_cmra(info) == info.cmra = "Y"

\* full_zip that leaves the extension out
full_zip_short(address) == address.zip

\* Address::full_zip
full_zip(address) ==
    IF address.zip4 = None THEN address.zip
    ELSE address.zip \o Hyphen \o address.zip4[1]

\* Record::from_mailbox_and_info
from_mailbox_and_info(mailbox, info) ==
    [zip |-> full_zip(mailbox.address),
     name |-> mailbox.name,
     street |-> mailbox.address.line1,
     city |-> mailbox.address.city,
     state |-> mailbox.address.state,
     price |-> mailbox.price,
     link |-> mailbox.link,
     rdi |-> info.rdi,
     cmra |-> info.cmra]

\* From<Address> for Lookup, as SmartyClient::inquire_address builds it
LookupFrom(address) ==
    [zipcode |-> full_zip(address),
     street |-> address.line1,
     city |-> address.city,
     state |-> address.state,
     match_strategy |-> "Enhanced"]

\* the mailboxes the request and the record are built from: one per zip and
\* zip4, well-formed or not
ZipMailboxes ==
    {[name |-> <<"T", "e", "s", "t">>,
      address |-> [line1 |-> <<"1", " ", "S", "t">>, city |-> <<"C">>, state |-> <<"S">>,
                   zip |-> zip, zip4 |-> zip4],
      link |-> <<"w", "h", "a", "t", "e", "v", "e", "r">>,
      price |-> <<"$", "9">>] :
        zip \in Zips \cup {<< >>, <<"1", "-", "2">>},
        zip4 \in {None} \cup {Some(e) : e \in Exts \cup {<< >>}}}

\* one mailbox goes through inquire_address and, with the answer, through
\* Record::from_mailbox_and_info
ApplyFullZip ==
    /\ parse.kind = "full_zip"
    /\ \E info \in Infos :
          Apply("full_zip", [lookup |-> LookupFrom(parse.in.address),
                             record |-> from_mailbox_and_info(parse.in, info)])

\* the ASCII letters, for str::to_lowercase
Uppercase == <<"A", "B", "C", "D", "E", "F", "G", "H", "I", "J", "K", "L", "M", "N", "O", "P", "Q", "R", "S", "T", "U", "V", "W", "X", "Y", "Z">>

Lowercase == <<"a", "b", "c", "d", "e", "f", "g", "h", "i", "j", "k", "l", "m", "n", "o", "p", "q", "r", "s", "t", "u", "v", "w", "x", "y", "z">>

\* char::to_lowercase of one character
LowerOf(c) ==
    IF \E k \in DOMAIN Uppercase : Uppercase[k] = c
    THEN Lowercase[CHOOSE k \in DOMAIN Uppercase : Uppercase[k] = c]
    ELSE c

\* str::to_lowercase
to_lowercase(value) == [i \in 1..Len(value) |-> LowerOf(value[i])]

\* TryFrom<String> for YesOrNo
YesOrNo_try_from(value) ==
    The({IF lower = <<"y">> THEN [ok |-> TRUE, val |-> "Y"]
         ELSE IF lower = <<"n">> THEN [ok |-> TRUE, val |-> "N"]
         ELSE [ok |-> FALSE, val |-> value] :
            lower \in {to_lowercase(value)}})

\* Rdi::try_from that takes every other string for Unknown
Rdi_try_from_coercing(value) ==
    The({IF lower = <<"r", "e", "s", "i", "d", "e", "n", "t", "i", "a", "l">> THEN [ok |-> TRUE, val |-> "Residential"]
         ELSE IF lower = <<"c", "o", "m", "m", "e", "r", "c", "i", "a", "l">> THEN [ok |-> TRUE, val |-> "Commercial"]
         ELSE [ok |-> TRUE, val |-> "Unknown"] :
            lower \in {to_lowercase(value)}})

\* TryFrom<String> for Rdi
Rdi_try_from(value) ==
    The({IF lower = <<"r", "e", "s", "i", "d", "e", "n", "t", "i", "a", "l">> THEN [ok |-> TRUE, val |-> "Residential"]
         ELSE IF lower = <<"c", "o", "m", "m", "e", "r", "c", "i", "a", "l">> THEN [ok |-> TRUE, val |-> "Commercial"]
         ELSE IF lower = << >> THEN [ok |-> TRUE, val |-> "Unknown"]
         ELSE [ok |-> FALSE, val |-> value] :
            lower \in {to_lowercase(value)}})

\* TryFrom<Lookup> for AdditionalInfo: bail on no results, then the first
\* candidate, with ? on the CMRA and then on the RDI
AdditionalInfo_try_from(lookup) ==
    IF lookup.results = << >> THEN [ok |-> FALSE, val |-> "no results found"]
    ELSE The({IF ~cmra.ok THEN [ok |-> FALSE, val |-> "failed to parse CMRA"]
              ELSE The({IF ~rdi.ok THEN [ok |-> FALSE, val |-> "failed to parse RDI"]
                        ELSE [ok |-> TRUE, val |-> [cmra |-> cmra.val, rdi |-> rdi.val]] :
                           rdi \in {Rdi_try_from(lookup.results[1].metadata.rdi)}}) :
                 cmra \in {YesOrNo_try_from(lookup.results[1].analysis.dpv_cmra)}})

\* a candidate of the response
Candidate(dpv_cmra, rdi) == [analysis |-> [dpv_cmra |-> dpv_cmra], metadata |-> [rdi |-> rdi]]

\* dpv_cmra strings of a response
CmraTexts ==
    {<<"Y">>, <<"y">>, <<"N">>, <<"n">>, << >>, <<"X">>, <<"Y", "e", "s">>, <<"y", " ">>}

\* rdi strings of a response
RdiTexts ==
    {<<"R", "e", "s", "i", "d", "e", "n", "t", "i", "a", "l">>,
     <<"r", "e", "s", "i", "d", "e", "n", "t", "i", "a", "l">>,
     <<"R", "E", "S", "I", "D", "E", "N", "T", "I", "A", "L">>,
     <<"C", "o", "m", "m", "e", "r", "c", "i", "a", "l">>,
     <<"c", "O", "M", "M", "E", "R", "C", "I", "A", "L">>,
     << >>,
     <<"U", "n", "k", "n", "o", "w", "n">>,
     <<"B", "u", "s", "i", "n", "e", "s", "s">>}

\* the candidates a response may carry after its first one
LaterCandidates ==
    {Candidate(<<"N">>, <<"C", "o", "m", "m", "e", "r", "c", "i", "a", "l">>), Candidate(<<"Y">>, << >>), Candidate(<<"m", "a", "y", "b", "e">>, <<"R", "e", "s", "i", "d", "e", "n", "t", "i", "a", "l">>)}

\* the candidates of a response: the first one any, at most MaxCandidates
RECURSIVE ResultLists(_)
ResultLists(n) ==
    IF n = 0 THEN {<< >>}
    ELSE IF n = 1 THEN {<< >>} \cup {<<Candidate(c, r)>> : c \in CmraTexts, r \in RdiTexts}
    ELSE {IF results = << >> THEN results ELSE results \o more :
             results \in ResultLists(n - 1), more \in {<< >>} \cup {<<l>> : l \in LaterCandidates}}

\* the responses the mapping is applied to
Responses == {[results |-> results] : results \in ResultLists(MaxCandidates)}

\* resp.clone().try_into() in SmartyClient::inquire_address
ApplyAdditionalInfo == Apply("additional_info", AdditionalInfo_try_from(parse.in))

\* the stream of inquire_mailboxes_info: one future per mailbox
InquiryTasks(mbs) ==
    [i \in DOMAIN mbs |->
        [mailbox |-> mbs[i], st |-> "pending", slot |-> NoClient, info |-> NoInfo]]

\* the first poll of the next k inquiry futures: each runs inquire_address
\* up to the await of the remote call, so it selects its slot and counts it
RECURSIVE StartInquiryTasks(_, _, _)
StartInquiryTasks(tasks, state, k) ==
    IF k = 0 THEN [tasks |-> tasks, state |-> state, panicked |-> FALSE]
    ELSE LET r == next_client(state)
             i == FirstPending(tasks)
         IN  IF r.idx = NoClient
             THEN [tasks |-> tasks, state |-> state, panicked |-> TRUE]
             ELSE StartInquiryTasks(
                      [tasks EXCEPT ![i].st = "inflight", ![i].slot = r.idx],
                      r.state, k - 1)

\* the tail of inquire_mailboxes_info failing on the first failed inquiry
inquire_result_strict(tasks) ==
    IF \E i \in DOMAIN tasks : tasks[i].st # "ok"
    THEN [ok |-> FALSE, val |-> {}]
    ELSE [ok |-> TRUE,
          val |-> {<<tasks[i].mailbox, tasks[i].info>> : i \in DOMAIN tasks}]

\* the tail of inquire_mailboxes_info: filter_map drops the None outputs and
\* the pairs are collected into the HashMap, returned in Ok
inquire_result(tasks) ==
    [ok |-> TRUE,
     val |-> {<<tasks[i].mailbox, tasks[i].info>> :
                 i \in {j \in DOMAIN tasks : tasks[j].st = "ok"}}]

(***************************************************************************)
(* Spec: main::run with every item tracked                                 *)
(***************************************************************************)

\* run after inquire_mailboxes_info: the records of the pairs that are not
\* CMRA are handed to save_records
SaveRecords(infos) ==
    /\ \E kept \in {{q \in infos : ~is_cmra(q[2])}} :
          records' = [r \in {from_mailbox_and_info(p[1], p[2]) : p \in kept} |->
                         Cardinality({p \in kept : from_mailbox_and_info(p[1], p[2]) = r})]
    /\ SaveAndExit

\* collect() of inquire_mailboxes_info has returned
FinishInquire(tasks, r) ==
    \E res \in {inquire_result(tasks)} :
    IF res.ok
    THEN /\ ret' = [r EXCEPT !.inquire_mailboxes_info = "Ok", !.infos = res.val]
         /\ SaveRecords(res.val)
    ELSE /\ ret' = [r EXCEPT !.inquire_mailboxes_info = "Err"]
         /\ ExitErr
         /\ UNCHANGED records

\* inquire_mailboxes_info(mailboxes) up to its first await
EnterInquire(mbs, r) ==
    \/ /\ Panic
       /\ ret' = r
       /\ UNCHANGED <<lookups, mailboxes_info, records>>
    \/ /\ ExitErr
       /\ ret' = [r EXCEPT !.inquire_mailboxes_info = "Err"]
       /\ UNCHANGED <<lookups, mailboxes_info, records>>
    \/ \E nslots \in 1..MaxSlots :
          \E t0 \in {InquiryTasks(mbs)} :
          \E s \in {StartInquiryTasks(t0, NewState(nslots),
                                      BufferFill(FanOf(t0), InquireConcurrency))} :
              /\ lookups' = s.state
              /\ mailboxes_info' = s.tasks
              /\ IF s.panicked THEN Panic /\ ret' = r /\ UNCHANGED records
                 ELSE IF AllDone(s.tasks) THEN FinishInquire(s.tasks, r)
                 ELSE /\ pc' = "inquire"
                      /\ ret' = r
                      /\ UNCHANGED <<runResult, saved, records>>

\* collect() of update_street2_for_mailbox has returned; fetch maps the
\* error, run goes on with the mailboxes
FinishDetails(tasks, r) ==
    \E res \in {update_street2_result(tasks)} :
    IF res.ok
    THEN EnterInquire(res.val,
                      [r EXCEPT !.update_street2_for_mailbox = "Ok",
                                !.updated = res.val, !.fetch = "Ok"])
    ELSE /\ ret' = [r EXCEPT !.update_street2_for_mailbox = "Err", !.fetch = "Err"]
         /\ ExitErr
         /\ UNCHANGED <<lookups, mailboxes_info, records>>

\* update_street2_for_mailbox(mailboxes) up to its first await
EnterDetails(mbs, r) ==
    \E tasks \in {Refill(DetailTasks(mbs), DetailConcurrency)} :
    /\ mailboxes' = tasks
    /\ IF AllDone(tasks) THEN FinishDetails(tasks, r)
       ELSE /\ pc' = "details"
            /\ ret' = r
            /\ UNCHANGED <<runResult, saved, lookups, mailboxes_info, records>>

\* collect() of fetch_state_pages has returned; fetch converts the pages,
\* compares the counts and starts stage C
FinishStates(tasks, r) ==
    \E res \in {fetch_state_pages_result(tasks)} :
    IF ~res.ok
    THEN /\ ret' = [r EXCEPT !.fetch_state_pages = "Err", !.fetch = "Err"]
         /\ ExitErr
         /\ UNCHANGED <<lookups, mailboxes, mailboxes_info, records>>
    ELSE \E r1 \in {[r EXCEPT !.fetch_state_pages = "Ok", !.pages = Cardinality(res.val)]} :
         \E mbs \in {flatten_mailboxes(tasks, res.val, 1)} :
             IF count_mismatch(Len(mbs), total_num(tasks, res.val))
             THEN /\ ret' = [r1 EXCEPT !.fetch = "Err"]
                  /\ ExitErr
                  /\ UNCHANGED <<lookups, mailboxes, mailboxes_info, records>>
             ELSE EnterDetails(mbs, r1)

\* the country page has been fetched (or not) and parsed (or not: no state
\* anchor is an error); fetch_state_pages starts the first state futures
CountryPageDone ==
    /\ pc = "country"
    /\ \/ /\ ExitErr
          /\ ret' = [ret EXCEPT !.fetch = "Err"]
          /\ UNCHANGED state_pages
       \/ \E n \in 1..MaxCrawlStates :
             /\ state_pages' = Refill([s \in 1..n |-> [st |-> "pending", locations |-> << >>]],
                                      StateConcurrency)
             /\ pc' = "states"
             /\ UNCHANGED <<runResult, saved, ret>>
    /\ UNCHANGED <<fetchVars, parseVars, loadVars, lookups, mailboxes, mailboxes_info, records>>

\* the listings parsed so far on all state pages
ParsedListings(tasks) == total_num(tasks, DOMAIN tasks)

\* the future of state s completes: fetch_page failed, parse_html failed,
\* or the page has len listings of which listing bad (if any) has an
\* address that does not convert
StatePageDone(s) ==
    /\ pc = "states"
    /\ s \in DOMAIN state_pages
    /\ state_pages[s].st = "inflight"
    /\ \E out \in {"fetch_err", "parse_err", "page"} :
       \E len \in 0..(MaxMailboxes - ParsedListings(state_pages)) :
       \E bad \in 0..len :
          /\ out # "page" => len = 0
          /\ \E t1 \in {[state_pages EXCEPT
                          ![s] = [st |-> out,
                                  locations |-> [j \in 1..len |-> LocationHtmlInfo(s, j, j # bad)]]]} :
             \E t2 \in {Refill(t1, StateConcurrency)} :
                 /\ state_pages' = t2
                 /\ IF AllDone(t2) THEN FinishStates(t2, ret)
                    ELSE UNCHANGED <<pc, runResult, saved, ret, lookups,
                                     mailboxes, mailboxes_info, records>>
    /\ UNCHANGED <<fetchVars, parseVars, loadVars>>

\* the detail future of mailbox i completes: fetch_page failed,
\* LocationDetailPage::parse_html failed, or line1 is overwritten
DetailPageDone(i) ==
    /\ pc = "details"
    /\ i \in DOMAIN mailboxes
    /\ mailboxes[i].st = "inflight"
    /\ \E out \in {"fetch_err", "parse_err", "ok"} :
          \E mb \in {mailboxes[i].mailbox} :
          \E t1 \in {[mailboxes EXCEPT
                         ![i] = [st |-> out,
                                 mailbox |-> IF out = "ok"
                                             THEN update_street(mb, DetailStreet(mb.link))
                                             ELSE mb]]} :
          \E t2 \in {Refill(t1, DetailConcurrency)} :
              /\ mailboxes' = t2
              /\ IF AllDone(t2) THEN FinishDetails(t2, ret)
                 ELSE UNCHANGED <<pc, runResult, saved, ret, lookups, mailboxes_info, records>>
    /\ UNCHANGED <<fetchVars, parseVars, loadVars, state_pages>>

\* the inquiry of mailbox i completes with Err or with Ok(info); the buffer
\* is refilled, which selects a slot for the next call or panics
InquireDone(i) ==
    /\ pc = "inquire"
    /\ i \in DOMAIN mailboxes_info
    /\ mailboxes_info[i].st = "inflight"
    /\ \E info \in Infos \cup {NoInfo} :
          \E t1 \in {[mailboxes_info EXCEPT
                         ![i].st = IF info = NoInfo THEN "err" ELSE "ok",
                         ![i].info = info]} :
          \E s \in {StartInquiryTasks(t1, lookups, BufferFill(FanOf(t1), InquireConcurrency))} :
              /\ lookups' = s.state
              /\ mailboxes_info' = s.tasks
              /\ IF s.panicked THEN Panic /\ UNCHANGED <<ret, records>>
                 ELSE IF AllDone(s.tasks) THEN FinishInquire(s.tasks, ret)
                 ELSE UNCHANGED <<pc, runResult, saved, ret, records>>
    /\ UNCHANGED <<fetchVars, parseVars, loadVars, state_pages, mailboxes>>

Next ==
    \/ Run
    \/ CountryPageDone
    \/ \E s \in 1..MaxCrawlStates : StatePageDone(s)
    \/ \E i \in 1..MaxMailboxes : DetailPageDone(i)
    \/ \E i \in 1..MaxMailboxes : InquireDone(i)

Init ==
    /\ fetchCall = [c \in Calls |-> IdleCall]
    /\ pc = "start"
    /\ runResult = "running"
    /\ saved = FALSE
    /\ lookups = NewState(0)
    /\ stageStates = FanNew(0)
    /\ stageDetails = FanNew(0)
    /\ stageInquire = FanNew(0)
    /\ inquiries = 0
    /\ state_pages = << >>
    /\ mailboxes = << >>
    /\ mailboxes_info = << >>
    /\ records = EmptyBag
    /\ ret = NoReturn
    /\ parse = NoParse

\* the inputs of SpecParse
ParseInputs ==
    {ParseInput("split_address", a) : a \in AddressBlocks}
    \cup {ParseInput("price", new_location_info(TestLine2, t)) : t \in PriceTexts}
    \cup {ParseInput("try_into_address", new_location_info(l, TestPrice)) : l \in Line2Texts}
    \cup {ParseInput("full_zip", m) : m \in ZipMailboxes}
    \cup {ParseInput("country_page", h) : h \in CountryPages}
    \cup {ParseInput("state_page", h) : h \in StatePages}
    \cup {ParseInput("detail_page", b) : b \in InfoBlocks}
    \cup {ParseInput("additional_info", l) : l \in Responses}

\* SpecParse starts with one function and one input chosen
InitParse ==
    /\ fetchCall = [c \in Calls |-> IdleCall]
    /\ pc = "start"
    /\ runResult = "running"
    /\ saved = FALSE
    /\ lookups = NewState(0)
    /\ stageStates = FanNew(0)
    /\ stageDetails = FanNew(0)
    /\ stageInquire = FanNew(0)
    /\ inquiries = 0
    /\ state_pages = << >>
    /\ mailboxes = << >>
    /\ mailboxes_info = << >>
    /\ records = EmptyBag
    /\ ret = NoReturn
    /\ parse \in ParseInputs

NextParse ==
    \/ ApplySplitAddress
    \/ ApplyPrice
    \/ ApplyTryIntoAddress
    \/ ApplyFullZip
    \/ ApplyCountryPage
    \/ ApplyStatePage
    \/ ApplyDetailPage
    \/ ApplyAdditionalInfo

SpecFetch == Init /\ [][NextFetch]_vars

SpecLoad == Init /\ [][NextLoad]_vars

Spec == Init /\ [][Next]_vars

SpecParse == InitParse /\ [][NextParse]_vars

\* every request is answered or fails in the end (the retries of fetch_page
\* are bounded), and the runtime polls a future that can make progress
SpecFair == Spec /\ WF_vars(Next)

(***************************************************************************)
(* Claims                                                                  *)
(***************************************************************************)

\* C1 (as stated): a fetch_page call never issues more than 3 requests, the
\* attempt budget passed to retry_wrapper.
C1_AtMostThreeRequests ==
    \A c \in Calls : fetchCall[c].requests <= RetryTimes

\* C1 (amended): a fetch_page call issues at most 4 requests (the first
\* attempt and 3 retries); it never waits for a 5th, and a call whose 4th
\* attempt failed has ended with a fetch error.
C1_AtMostFourRequests ==
    \A c \in Calls :
        /\ fetchCall[c].requests <= RetryTimes + 1
        /\ fetchCall[c].pc = "sleep" => fetchCall[c].cur_times <= RetryTimes
        /\ fetchCall[c].result = "fetch_err" => fetchCall[c].pc = "done"

\* a call all of whose attempts failed: 4 requests, then the terminal error
C1_Witness ==
    \E c \in Calls :
        /\ fetchCall[c].pc = "done"
        /\ fetchCall[c].result = "fetch_err"
        /\ fetchCall[c].requests = RetryTimes + 1

\* the sum of the counters of all slots
RECURSIVE SumLookups(_, _)
SumLookups(state, n) ==
    IF n = 0 THEN 0 ELSE state[n - 1] + SumLookups(state, n - 1)

TotalLookups == SumLookups(lookups, Cardinality(DOMAIN lookups))

\* the share of slot i after the given number of calls when each slot is
\* used for LookupLimit + 1 calls before the next one is touched
SlotShare(i, calls) ==
    LET rest == calls - i * (LookupLimit + 1) IN
    IF rest < 0 THEN 0 ELSE Min(rest, LookupLimit + 1)

\* C2: calls are routed to the lowest-index slot whose counter is not above
\* 1000: after k calls slot i has served the calls 1001*i + 1 .. 1001*(i+1)
\* among the first k (slot 0 the first 1001, call 1002 goes to slot 1), and
\* a slot i > 0 has a non-zero counter only if every lower slot is at 1001.
C2_LowestSlotFirst ==
    /\ \A i \in DOMAIN lookups :
          lookups[i] = SlotShare(i, stageInquire.started)
    /\ \A i \in DOMAIN lookups :
          (i > 0 /\ lookups[i] # 0) =>
              \A j \in DOMAIN lookups : j < i => lookups[j] = LookupLimit + 1

\* two slots, 1002 calls made: the last one was the first routed to slot 1
C2_Witness ==
    /\ DOMAIN lookups = {0, 1}
    /\ stageInquire.started = LookupLimit + 2
    /\ lookups[0] = LookupLimit + 1
    /\ lookups[1] = 1

\* C3: with up to 10 inquiries in flight, every started inquire_address call
\* is counted exactly once (no increment is lost) and no slot's counter ever
\* exceeds 1001.
C3_NoLostIncrement ==
    /\ TotalLookups = stageInquire.started
    /\ \A i \in DOMAIN lookups : lookups[i] <= LookupLimit + 1

\* 10 inquiries in flight, more to come, and a slot already at its ceiling
C3_Witness ==
    /\ pc = "inquire"
    /\ stageInquire.inflight = InquireConcurrency
    /\ stageInquire.started < stageInquire.total
    /\ \E i \in DOMAIN lookups : lookups[i] = LookupLimit + 1

\* every slot of the proxy has a counter above 1000
AllExceeded ==
    /\ DOMAIN lookups # {}
    /\ \A i \in DOMAIN lookups : lookups[i] > LookupLimit

\* C4: when every slot is exceeded and one more inquire_address call is
\* made, the run ends at once by a panic: the call is neither started nor
\* counted as a failed item, save_records is not invoked, and after the
\* panic no further result is collected.
C4_ExhaustionIsFatal ==
    [][ /\ (pc = "inquire" /\ AllExceeded /\ stageInquire.started < stageInquire.total) =>
              /\ pc' = "exited"
              /\ runResult' = "panic"
              /\ ~saved'
              /\ stageInquire'.started = stageInquire.started
              /\ stageInquire'.ok + stageInquire'.err = stageInquire.ok + stageInquire.err + 1
        /\ runResult = "panic" =>
              /\ ~saved /\ ~saved'
              /\ stageInquire' = stageInquire
      ]_vars

\* the run has panicked on the call after the last slot was used up
C4_Witness ==
    /\ runResult = "panic"
    /\ AllExceeded
    /\ stageInquire.started < stageInquire.total
    /\ stageInquire.inflight > 0
    /\ ~saved

\* C9: the number of in-flight operations of each stage is within its
\* ceiling: 5 state pages, 10 detail pages, 10 inquiries.
C9_StageCeilings ==
    /\ stageStates.inflight <= 5
    /\ stageDetails.inflight <= 10
    /\ stageInquire.inflight <= 10

\* a run with more items than the ceiling in every stage, the enrichment
\* at its ceiling with items still waiting
C9_Witness ==
    /\ stageStates.total > 5
    /\ stageDetails.total > 10
    /\ stageInquire.inflight = 10
    /\ stageInquire.started < stageInquire.total

\* the state futures that ended in an error
FailedStates == {s \in DOMAIN state_pages : state_pages[s].st \in {"fetch_err", "parse_err"}}

\* C5: fetch_state_pages returns Ok exactly when the fetch and the parse of
\* every discovered state succeeded, and then with one page per state; once
\* a state has failed the run ends in an error and no mailbox is produced.
C5_StageAAllOrNothing ==
    /\ ret.fetch_state_pages = "Ok" <=>
          (state_pages # << >> /\ \A s \in DOMAIN state_pages : state_pages[s].st = "page")
    /\ ret.fetch_state_pages = "Ok" => ret.pages = Len(state_pages)
    /\ FailedStates # {} =>
          /\ ret.fetch_state_pages # "Ok"
          /\ mailboxes = << >> /\ mailboxes_info = << >> /\ records = EmptyBag /\ ~saved
          /\ AllDone(state_pages) =>
                /\ ret.fetch_state_pages = "Err" /\ ret.fetch = "Err"
                /\ pc = "exited" /\ runResult = "err"

\* one state failed to parse, another gave a page with listings: the run
\* has failed
C5_Witness ==
    /\ \E s \in DOMAIN state_pages : state_pages[s].st = "parse_err"
    /\ \E s \in DOMAIN state_pages :
          state_pages[s].st = "page" /\ Len(state_pages[s].locations) > 0
    /\ runResult = "err"

\* the listings parsed on the state pages
ParsedOnPages ==
    {p \in (DOMAIN state_pages) \X (1..MaxMailboxes) :
        p[2] \in DOMAIN state_pages[p[1]].locations}

\* the listings that end up as mailboxes: those of the pages on which every
\* listing has a convertible address
ConvertedOnPages ==
    LET converted == {s \in DOMAIN state_pages :
                         \A j \in DOMAIN state_pages[s].locations :
                             TryIntoMailbox(state_pages[s].locations[j]).ok}
    IN  {p \in ParsedOnPages : p[1] \in converted}

\* stage C has been entered
StageCStarted == pc = "details" \/ ret.update_street2_for_mailbox # "none"

\* C6: after fetch_state_pages returned, if the number of mailboxes got by
\* converting the pages differs from the number of listings parsed, fetch
\* fails and the run ends in an error without starting stage C; stage C is
\* started only with the two counts equal.
C6_CountCheck ==
    ret.fetch_state_pages = "Ok" =>
        /\ Cardinality(ConvertedOnPages) # Cardinality(ParsedOnPages) =>
              /\ ret.fetch = "Err" /\ pc = "exited" /\ runResult = "err"
              /\ ~StageCStarted /\ mailboxes = << >> /\ ~saved
        /\ StageCStarted =>
              /\ Cardinality(ConvertedOnPages) = Cardinality(ParsedOnPages)
              /\ Len(mailboxes) = Cardinality(ParsedOnPages)

\* a page with two listings of which one does not convert, next to a page
\* whose listing converts: the run has failed on the count check
C6_Witness ==
    /\ ret.fetch_state_pages = "Ok"
    /\ ret.fetch = "Err"
    /\ \E s \in DOMAIN state_pages :
          /\ Len(state_pages[s].locations) = 2
          /\ Cardinality({j \in 1..2 : TryIntoMailbox(state_pages[s].locations[j]).ok}) = 1
    /\ Cardinality(ConvertedOnPages) = 1

\* the detail futures that ended in an error
FailedDetails == {i \in DOMAIN mailboxes : mailboxes[i].st \in {"fetch_err", "parse_err"}}

\* C7: update_street2_for_mailbox returns Ok only with as many mailboxes as
\* it was given, every one of them updated; when the detail page of some
\* mailbox could not be fetched or parsed, the other futures still complete
\* and then update_street2_for_mailbox, fetch and the run fail.
C7_DetailFailureFails ==
    /\ ret.update_street2_for_mailbox = "Ok" =>
          /\ Len(ret.updated) = Len(mailboxes)
          /\ FailedDetails = {}
    /\ ret.update_street2_for_mailbox = "Err" => AllDone(mailboxes)
    /\ (FailedDetails # {} /\ AllDone(mailboxes)) =>
          /\ ret.update_street2_for_mailbox = "Err" /\ ret.fetch = "Err"
          /\ pc = "exited" /\ runResult = "err"
          /\ mailboxes_info = << >> /\ ~saved

\* one detail page failed, another one succeeded: fetch has failed
C7_Witness ==
    /\ ret.update_street2_for_mailbox = "Err"
    /\ \E i \in DOMAIN mailboxes : mailboxes[i].st = "fetch_err"
    /\ \E i \in DOMAIN mailboxes : mailboxes[i].st = "ok"

\* the (mailbox, info) pairs of the inquiries that succeeded
SucceededInquiries ==
    {<<mailboxes_info[i].mailbox, mailboxes_info[i].info>> :
        i \in {j \in DOMAIN mailboxes_info : mailboxes_info[j].st = "ok"}}

\* C8: an inquire_address error drops only its own mailbox: once the proxy
\* is built inquire_mailboxes_info never returns Err, it returns after every
\* mailbox has been inquired, and what it returns is exactly the mailboxes
\* whose inquiry succeeded, each with its own info.
C8_InquiryFailureIsSoft ==
    /\ mailboxes_info # << >> => ret.inquire_mailboxes_info # "Err"
    /\ (mailboxes_info # << >> /\ AllDone(mailboxes_info)) =>
          ret.inquire_mailboxes_info = "Ok"
    /\ ret.inquire_mailboxes_info = "Ok" =>
          /\ AllDone(mailboxes_info)
          /\ ret.infos = SucceededInquiries
          /\ saved

\* one inquiry failed, another one succeeded, and the pass has returned Ok
C8_Witness ==
    /\ ret.inquire_mailboxes_info = "Ok"
    /\ \E i \in DOMAIN mailboxes_info : mailboxes_info[i].st = "err"
    /\ \E i \in DOMAIN mailboxes_info : mailboxes_info[i].st = "ok"

\* the mailbox as the state page parser created it, found by its link
CreatedMailbox(link) ==
    TryIntoMailbox(state_pages[link[2]].locations[link[3]]).val

\* the mailbox of a detail future is the created one, with line1 replaced by
\* the street of its own detail page once the future has succeeded; the
\* enrichment gets these mailboxes, and the records carry their fields
C10_Fields ==
    /\ \A i \in DOMAIN mailboxes :
          LET t == mailboxes[i]
              created == CreatedMailbox(t.mailbox.link)
          IN  /\ t.mailbox.name = created.name
              /\ t.mailbox.link = created.link
              /\ t.mailbox.price = created.price
              /\ t.mailbox.address.city = created.address.city
              /\ t.mailbox.address.state = created.address.state
              /\ t.mailbox.address.zip = created.address.zip
              /\ t.mailbox.address.zip4 = created.address.zip4
              /\ t.mailbox.address.line1 =
                    IF t.st = "ok" THEN DetailStreet(created.link)
                    ELSE created.address.line1
    /\ \A i \in DOMAIN mailboxes_info :
          mailboxes_info[i].mailbox = mailboxes[i].mailbox
    /\ \A r \in BagToSet(records) :
          \E i \in DOMAIN mailboxes :
             LET m == mailboxes[i].mailbox IN
             /\ r.name = m.name /\ r.link = m.link /\ r.price = m.price
             /\ r.street = m.address.line1
             /\ r.city = m.address.city /\ r.state = m.address.state

\* a mailbox changes only in the step in which its own detail future
\* succeeds
C10_WrittenOnce ==
    \A i \in DOMAIN mailboxes :
        (i \in DOMAIN mailboxes' /\ mailboxes'[i].mailbox # mailboxes[i].mailbox) =>
            (mailboxes[i].st = "inflight" /\ mailboxes'[i].st = "ok")

\* C10: stage C overwrites line1 of each mailbox once, in the step in which
\* its own detail future succeeds, with the street of the page behind its
\* own link; name, city, state, zip, zip4, link and price stay as created,
\* through the enrichment and into the records.
C10_MailboxLifecycle == []C10_Fields /\ [][C10_WrittenOnce]_vars

\* two mailboxes went through stage C and a record of one was saved
C10_Witness ==
    /\ Len(mailboxes) >= 2
    /\ \A i \in DOMAIN mailboxes :
          mailboxes[i].mailbox.address.line1 = DetailStreet(mailboxes[i].mailbox.link)
    /\ records # EmptyBag

\* the positions at which "<br>" occurs in the input of split_address
BrAt == {i \in 1..Len(parse.in) : MatchesAt(parse.in, BR, i)}

\* the least element of a non-empty set of numbers
Least(S) == CHOOSE i \in S : \A j \in S : i <= j

\* C16: split_address yields nothing for a text without "<br>"; otherwise it
\* yields the text before the first "<br>" and the text between the first
\* "<br>" and the next one (or the end), whatever follows.
C16_SplitAddress ==
    (parse.kind = "split_address" /\ parse.done) =>
        IF BrAt = {} THEN parse.out = None
        ELSE LET first == Least(BrAt)
                 later == {i \in BrAt : i >= first + Len(BR)}
                 stop == IF later = {} THEN Len(parse.in) ELSE Least(later) - 1
             IN  parse.out = Some(<<SubSeq(parse.in, 1, first - 1),
                                    SubSeq(parse.in, first + Len(BR), stop)>>)

\* an address block with a third segment after two lines has been split
C16_Witness ==
    /\ parse.kind = "split_address" /\ parse.done
    /\ parse.in = <<"1">> \o BR \o <<"1">> \o BR
    /\ parse.out = Some(<< <<"1">>, <<"1">> >>)

\* the positions at which "Starting from" occurs in the price text
PhraseAt == {i \in 1..Len(parse.in.price) : MatchesAt(parse.in.price, StartingFrom, i)}

\* the price text with the first "Starting from" taken out
PhraseRemovedOnce ==
    IF PhraseAt = {} THEN parse.in.price
    ELSE SubSeq(parse.in.price, 1, Least(PhraseAt) - 1)
         \o SubSeq(parse.in.price, Least(PhraseAt) + Len(StartingFrom), Len(parse.in.price))

\* the character is not whitespace
NotWhitespace(c) == c \notin Whitespace

\* C17: the normalized price is the price text with "Starting from" removed
\* once and every whitespace character removed, so it holds no whitespace.
C17_PriceNormalized ==
    (parse.kind = "price" /\ parse.done) =>
        /\ parse.out = SelectSeq(PhraseRemovedOnce, NotWhitespace)
        /\ \A i \in DOMAIN parse.out : parse.out[i] \notin Whitespace

\* C17, the example: "Starting from US$ 9.99 / month" becomes "US$9.99/month"
C17_Example ==
    (parse.kind = "price" /\ parse.done /\ parse.in.price = TestPrice) =>
        parse.out = <<"U", "S", "$", "9", ".", "9", "9", "/", "m", "o", "n", "t", "h">>

\* C17, what the code does: every "Starting from" and every U+0020 removed,
\* in this order; any other whitespace stays
C17_SpacesOnly ==
    (parse.kind = "price" /\ parse.done) =>
        /\ \A i \in DOMAIN parse.out : parse.out[i] # " "
        /\ Cardinality({i \in DOMAIN parse.out : parse.out[i] = "\t"})
              = Cardinality({i \in DOMAIN parse.in.price : parse.in.price[i] = "\t"})

\* the text is made of decimal digits only
AllDigits(t) == \A i \in DOMAIN t : \E d \in DOMAIN Digits : t[i] = Digits[d]

\* C14: every Address got by converting a listing has a non-empty zip, and
\* its zip4, when present, is exactly 4 digits.
C14_ZipInvariant ==
    (parse.kind = "try_into_address" /\ parse.done /\ parse.out.ok) =>
        /\ parse.out.val.zip # << >>
        /\ parse.out.val.zip4 # None =>
              (Len(parse.out.val.zip4[1]) = 4 /\ AllDigits(parse.out.val.zip4[1]))

\* C14, what the code does: the zip is the text of the second token before
\* its first hyphen and the zip4 the text after it up to the next hyphen,
\* whatever they hold
C14_ZipAsFound ==
    (parse.kind = "try_into_address" /\ parse.done /\ parse.out.ok) =>
        /\ \A i \in DOMAIN parse.out.val.zip : parse.out.val.zip[i] \notin {" ", "-", ","}
        /\ parse.out.val.zip4 # None =>
              \A i \in DOMAIN parse.out.val.zip4[1] :
                  parse.out.val.zip4[1][i] \notin {" ", "-", ","}

\* the second address line is city, ", ", state, " ", zip and, with an
\* extension, "-" and the extension
IsShape(city, state, zip, ext) ==
    parse.in.line2 = city \o Comma \o Space \o state \o Space \o zip
                     \o (IF ext = None THEN << >> ELSE Hyphen \o ext[1])

\* the segment between the first comma of the second address line and the
\* next one, or nothing when the line has no comma
AfterComma ==
    LET line == parse.in.line2
        commas == {i \in DOMAIN line : line[i] = ","}
    IN  IF commas = {} THEN None
        ELSE LET first == Least(commas)
                 later == commas \ {first}
             IN  Some(SubSeq(line, first + 1,
                             IF later = {} THEN Len(line) ELSE Least(later) - 1))

\* the places of a text at which a token starts: a character that is not
\* whitespace, at the start or after whitespace
TokenStarts(t) ==
    {i \in DOMAIN t : t[i] \notin Whitespace /\ (i = 1 \/ t[i - 1] \in Whitespace)}

\* C15: "C, S Z" and "C, S Z-E" convert to city C, state S, zip Z and zip4 E
\* or None; a line with no comma, or with fewer than two tokens after the
\* comma, does not convert.
C15_Line2Parsed ==
    (parse.kind = "try_into_address" /\ parse.done) =>
        /\ \A city \in Cities, state \in States, zip \in Zips,
              ext \in {None} \cup {Some(e) : e \in Exts} :
              IsShape(city, state, zip, ext) =>
                  /\ parse.out.ok
                  /\ parse.out.val.city = city
                  /\ parse.out.val.state = state
                  /\ parse.out.val.zip = zip
                  /\ parse.out.val.zip4 = ext
                  /\ parse.out.val.line1 = parse.in.line1
        /\ (AfterComma = None \/ Cardinality(TokenStarts(AfterComma[1])) < 2) => ~parse.out.ok

\* "C C, S 12345-6789" has been converted
C15_Witness ==
    /\ parse.kind = "try_into_address" /\ parse.done
    /\ IsShape(<<"C", " ", "C">>, <<"S">>, <<"1", "2", "3", "4", "5">>, Some(<<"6", "7", "8", "9">>))
    /\ parse.out.ok
    /\ parse.out.val.zip4 = Some(<<"6", "7", "8", "9">>)

\* "C, S", a line without a zip, has failed to convert
C15_WitnessFailure ==
    /\ parse.kind = "try_into_address" /\ parse.done
    /\ parse.in.line2 = <<"C", ",", " ", "S">>
    /\ ~parse.out.ok

\* C18: the zipcode of the Lookup and the zip of the Record of a mailbox are
\* both the zip of its address when it has no zip4, and the zip, a hyphen
\* and the zip4 when it has one, whatever the zip and the zip4 hold.
C18_FullZip ==
    (parse.kind = "full_zip" /\ parse.done) =>
        LET address == parse.in.address
            expected == IF address.zip4 = None THEN address.zip
                        ELSE [i \in 1..(Len(address.zip) + 1 + Len(address.zip4[1])) |->
                                 IF i <= Len(address.zip) THEN address.zip[i]
                                 ELSE IF i = Len(address.zip) + 1 THEN "-"
                                 ELSE address.zip4[1][i - Len(address.zip) - 1]]
        IN  /\ parse.out.lookup.zipcode = expected
            /\ parse.out.record.zip = expected

\* the Lookup and the Record of an address with zip 12345 and zip4 6789 both
\* hold 12345-6789
C18_Witness ==
    /\ parse.kind = "full_zip" /\ parse.done
    /\ parse.in.address.zip4 = Some(<<"6", "7", "8", "9">>)
    /\ parse.out.lookup.zipcode = <<"1", "2", "3", "4", "5", "-", "6", "7", "8", "9">>
    /\ parse.out.record.zip = <<"1", "2", "3", "4", "5", "-", "6", "7", "8", "9">>

\* the anchors of the country page: <<i, j, k>> with the opening literal at
\* i, the first "'>" after it at j and the first "</a>" after that at k, all
\* on one line
StateAnchors ==
    LET html == parse.in IN
    {a \in (DOMAIN html) \X (DOMAIN html) \X (DOMAIN html) :
        /\ a[1] < a[2] /\ a[2] < a[3]
        /\ html[a[1]] = AnchorOpen /\ html[a[2]] = HrefClose /\ html[a[3]] = AnchorClose
        /\ \A n \in a[1]..a[3] : html[n] # LineFeed
        /\ \A n \in (a[1] + 1)..(a[2] - 1) : html[n] # HrefClose
        /\ \A n \in (a[2] + 1)..(a[3] - 1) : html[n] # AnchorClose}

\* C13: parse_html fails exactly on a page without a state anchor; otherwise
\* its list is not empty and holds the path and the name of anchors of the
\* page in document order, one entry for each anchor that is not inside the
\* anchor of another entry.
C13_CountryPage ==
    (parse.kind = "country_page" /\ parse.done) =>
        /\ parse.out.ok <=> StateAnchors # {}
        /\ ~parse.out.ok => parse.out.val = << >>
        /\ parse.out.ok =>
              /\ parse.out.val # << >>
              /\ \E f \in [DOMAIN parse.out.val -> StateAnchors] :
                    /\ \A n \in DOMAIN f :
                          /\ parse.out.val[n].sub_url = SubSeq(parse.in, f[n][1] + 1, f[n][2] - 1)
                          /\ parse.out.val[n].name = SubSeq(parse.in, f[n][2] + 1, f[n][3] - 1)
                    /\ \A n, m \in DOMAIN f : n < m => f[n][3] < f[m][1]
                    /\ \A a \in StateAnchors :
                          \E n \in DOMAIN f : a[1] >= f[n][1] /\ a[1] <= f[n][3]

\* a page with the anchors of two states, b before a, has been parsed
C13_Witness ==
    /\ parse.kind = "country_page" /\ parse.done
    /\ parse.in = StateAnchor("b") \o <<LineFeed>> \o StateAnchor("a")
    /\ parse.out.ok
    /\ parse.out.val = <<[sub_url |-> <<"/", "b">>, name |-> <<"b">>],
                         [sub_url |-> <<"/", "a">>, name |-> <<"a">>]>>

\* a page without a complete anchor has been refused
C13_WitnessEmpty ==
    /\ parse.kind = "country_page" /\ parse.done
    /\ parse.in = <<AnchorOpen, HrefClose, LineFeed>>
    /\ ~parse.out.ok

\* the container has a title, a price, an address block with a "<br>" and a
\* plan button with a href
Complete(c) ==
    /\ c.title # None /\ c.price # None
    /\ c.address # None
    /\ \E i \in DOMAIN c.address[1] : MatchesAt(c.address[1], BR, i)
    /\ c.plan # None /\ c.plan[1] # None

\* C12: a container that lacks a title, a price, an address block or a plan
\* link, or whose address does not split, costs that listing only: every
\* complete container of the page is among the locations parse_html returns.
C12_OtherListingsExtracted ==
    (parse.kind = "state_page" /\ parse.done) =>
        \A j \in DOMAIN parse.in :
            Complete(parse.in[j]) =>
                \E n \in DOMAIN parse.out.locations :
                    /\ parse.out.locations[n].name = parse.in[j].title[1]
                    /\ parse.out.locations[n].link = <<BASE_URL>> \o parse.in[j].plan[1][1]

\* C12, what the code does: parse_html returns the listings of a page on
\* which every container is complete, one per container and in order, and
\* an error without any listing for every other page
C12_FirstFailureFailsPage ==
    (parse.kind = "state_page" /\ parse.done) =>
        /\ parse.out.ok <=> \A j \in DOMAIN parse.in : Complete(parse.in[j])
        /\ parse.out.ok => Len(parse.out.locations) = Len(parse.in)
        /\ ~parse.out.ok => parse.out.locations = << >>

\* the places of the non-empty sub-elements of the info block
LinePlaces == {i \in DOMAIN parse.in : parse.in[i] # << >>}

\* line k of the info block, counted from 0: the non-empty sub-element with
\* k non-empty ones before it
Line(k) ==
    parse.in[CHOOSE i \in LinePlaces : Cardinality({j \in LinePlaces : j < i}) = k]

\* C11: with 4 non-empty lines the street is line 1, with 5 lines 1 and 2
\* and with 6 lines 1, 2 and 3, joined by one blank; with any other number
\* of lines the page does not parse and there is no street.
C11_LineCountBranching ==
    (parse.kind = "detail_page" /\ parse.done) =>
        LET n == Cardinality(LinePlaces) IN
        /\ n = 4 => parse.out = [ok |-> TRUE, street |-> Some(Line(1))]
        /\ n = 5 => parse.out = [ok |-> TRUE, street |-> Some(Line(1) \o <<" ">> \o Line(2))]
        /\ n = 6 => parse.out = [ok |-> TRUE,
                                 street |-> Some(Line(1) \o <<" ">> \o Line(2) \o <<" ">> \o Line(3))]
        /\ n \notin {4, 5, 6} => parse.out = [ok |-> FALSE, street |-> None]

\* a block of six lines and an empty sub-element has been parsed
C11_Witness ==
    /\ parse.kind = "detail_page" /\ parse.done
    /\ parse.in = << <<"A">>, <<"B", "2">>, << >>, <<"A">>, <<"A">>, <<"B", "2">>, <<"A">> >>
    /\ parse.out.street = Some(<<"B", "2", " ", "A", " ", "A">>)

\* blocks of three and of seven lines have been refused
C11_WitnessRefused ==
    /\ parse.kind = "detail_page" /\ parse.done
    /\ Cardinality(LinePlaces) \in {3, 7}
    /\ ~parse.out.ok

\* a page fetch or an inquiry is in flight
TaskInFlight ==
    \/ \E s \in DOMAIN state_pages : state_pages[s].st = "inflight"
    \/ \E i \in DOMAIN mailboxes : mailboxes[i].st = "inflight"
    \/ \E i \in DOMAIN mailboxes_info : mailboxes_info[i].st = "inflight"

C19_WitnessOk ==
    /\ pc = "exited" /\ runResult = "ok" /\ saved
    /\ mailboxes_info # << >>

\* C20: once save_records has been invoked, the records handed to it are
\* the records of the enriched pairs whose CMRA is N, one record for each
\* such pair, and none of them has CMRA = Y
C20_NonCmraRecords ==
    saved =>
       /\ \A r \in BagToSet(records) :
             /\ r.cmra = "N"
             /\ \E p \in ret.infos : p[2].cmra = "N" /\ r = from_mailbox_and_info(p[1], p[2])
       /\ \A p \in ret.infos :
             /\ p[2].cmra = "N" => CopiesIn(from_mailbox_and_info(p[1], p[2]), records) = 1
             /\ p[2].cmra = "Y" => ~BagIn(from_mailbox_and_info(p[1], p[2]), records)
       /\ BagCardinality(records) = Cardinality({p \in ret.infos : p[2].cmra = "N"})

\* save_records has been invoked with a record, after an enrichment that
\* answered CMRA = Y for one mailbox and CMRA = N for another
C20_Witness ==
    /\ saved
    /\ \E p \in ret.infos : p[2].cmra = "Y"
    /\ \E p \in ret.infos : p[2].cmra = "N"
    /\ records # EmptyBag

C21_WitnessRetried ==
    \E c \in Calls :
        /\ fetchCall[c].pc = "done" /\ fetchCall[c].result = "page"
        /\ fetchCall[c].cur_times = 2

\* C22: a page is fetched by one fetch_page call, started once; a request
\* is issued only as the first attempt of that call or as the retry that
\* follows a failed attempt; once a body has been returned the call has
\* ended and no further request is issued for the page, whether the body
\* parsed or not.
C22_NoRefetchAfterParse ==
    [][\A c \in Calls :
          \E a \in {fetchCall[c]} : \E b \in {fetchCall'[c]} :
             /\ b.pc = "idle" => a.pc = "idle"
             /\ a.result \in {"page", "parse_err"} => a.pc = "done" /\ b = a
             /\ b.requests # a.requests =>
                   /\ b.requests = a.requests + 1
                   /\ \/ a.pc = "idle" /\ a.requests = 0
                      \/ a.pc = "sleep" /\ a.class = "transient" /\ a.result = "none"
             /\ b.result \in {"page", "parse_err"} => b.pc = "done"]_vars

\* a body that was returned by a retry has failed to parse, and the call
\* has ended with the requests it had made
C22_Witness ==
    \E c \in Calls :
        /\ fetchCall[c].pc = "done"
        /\ fetchCall[c].result = "parse_err"
        /\ fetchCall[c].requests = 2

\* the futures of a stage that have been polled: their request is issued
Issued(tasks) == {i \in DOMAIN tasks : tasks[i].st # "pending"}

\* the futures of a stage that have not completed
Incomplete(tasks) == {i \in DOMAIN tasks : tasks[i].st \in {"pending", "inflight"}}

\* C23: a detail page is fetched only after every state future has
\* completed and the count check has passed; an address is inquired only
\* after every detail future has completed with success; and the results
\* of a stage (the pages, the mailboxes, the updated mailboxes, the pairs,
\* the records) exist only once every future of the stage has completed.
C23_StageBarriers ==
    /\ Issued(mailboxes) # {} =>
          /\ Incomplete(state_pages) = {}
          /\ Cardinality(ConvertedOnPages) = Cardinality(ParsedOnPages)
          /\ Len(mailboxes) = Cardinality(ParsedOnPages)
    /\ Issued(mailboxes_info) # {} =>
          /\ Incomplete(mailboxes) = {}
          /\ \A i \in DOMAIN mailboxes : mailboxes[i].st = "ok"
    /\ (ret.fetch_state_pages # "none" \/ ret.pages # 0 \/ mailboxes # << >>) =>
          Incomplete(state_pages) = {}
    /\ (ret.update_street2_for_mailbox # "none" \/ ret.updated # << >>
          \/ mailboxes_info # << >>) =>
          Incomplete(mailboxes) = {}
    /\ (ret.inquire_mailboxes_info = "Ok" \/ ret.infos # {} \/ records # EmptyBag \/ saved) =>
          Incomplete(mailboxes_info) = {}

\* the run is in the enrichment pass with two mailboxes from two state
\* pages, one address inquired and answered, the other still in flight
C23_Witness ==
    /\ Len(state_pages) = 2
    /\ Len(mailboxes) = 2
    /\ \E i \in DOMAIN mailboxes_info : mailboxes_info[i].st = "ok"
    /\ \E i \in DOMAIN mailboxes_info : mailboxes_info[i].st = "inflight"

\* the counter of slot i, 0 before the proxy is built
Counter(state, i) == IF i \in DOMAIN state THEN state[i] ELSE 0

\* the slots whose counter differs between two states of the proxy
ChangedSlots(old, new) == {i \in DOMAIN new : Counter(old, i) # new[i]}

\* C24 (as stated): every inquire_address call increments one counter by
\* one, so the sum of the counters is the number of calls entered.
C24_SumIsCallsEntered == TotalLookups = inquiries

\* the sum of the counters is the number of calls entered, less the one
\* call that found every slot exceeded and panicked
C24_Sum ==
    /\ runResult # "panic" => TotalLookups = inquiries
    /\ TotalLookups # inquiries =>
          /\ runResult = "panic" /\ AllExceeded
          /\ inquiries = TotalLookups + 1
    /\ TotalLookups = stageInquire.started

\* counters never decrease; the calls of a step add their number to the
\* sum, a single call adds 1 to one counter and leaves the others alone,
\* and a step without a call (an inquiry that completes, with Ok or Err,
\* and starts no other) leaves every counter as it is
C24_Step ==
    \E old \in {lookups} : \E new \in {lookups'} :
    \E calls \in {stageInquire'.started - stageInquire.started} :
       /\ \A i \in DOMAIN old : i \in DOMAIN new /\ new[i] >= old[i]
       /\ SumLookups(new, Cardinality(DOMAIN new))
             = SumLookups(old, Cardinality(DOMAIN old)) + calls
       /\ calls = 1 =>
             \E i \in DOMAIN new :
                /\ new[i] = Counter(old, i) + 1
                /\ ChangedSlots(old, new) = {i}
       /\ calls = 0 => ChangedSlots(old, new) = {}
       /\ inquiries' - inquiries \in {calls, calls + 1}

\* C24 (amended): each inquire_address call that finds a slot not exceeded
\* increments the counter of that one slot by 1 before its remote call and
\* leaves the others unchanged, whatever the outcome of the remote call; a
\* call that finds every slot exceeded panics and increments nothing; so
\* the sum of the counters is the number of calls that reached their
\* remote call, and counters never decrease.
C24_CountersCountCalls == []C24_Sum /\ [][C24_Step]_vars

\* two slots in use, an inquiry has failed and others are in flight: the
\* counters still hold every call
C24_Witness ==
    /\ pc = "inquire"
    /\ stageInquire.err > 0 /\ stageInquire.ok > 0
    /\ DOMAIN lookups = {0, 1}
    /\ lookups[1] > 0
    /\ TotalLookups = inquiries

\* the call after the last slot was used up has panicked
C24_WitnessPanic ==
    /\ runResult = "panic"
    /\ inquiries = TotalLookups + 1

\* s is word (given in lower case) up to the case of its letters
SameLetters(s, word) ==
    /\ Len(s) = Len(word)
    /\ \A i \in 1..Len(word) :
          \/ s[i] = word[i]
          \/ \E k \in DOMAIN Lowercase : Lowercase[k] = word[i] /\ Uppercase[k] = s[i]

\* the CMRA value a dpv_cmra string stands for, "" if none
CmraOf(s) ==
    IF SameLetters(s, <<"y">>) THEN "Y" ELSE IF SameLetters(s, <<"n">>) THEN "N" ELSE ""

\* the RDI value an rdi string stands for when it has to be spelled as in
\* the claim, "" if none
RdiExactOf(s) ==
    IF s = <<"R", "e", "s", "i", "d", "e", "n", "t", "i", "a", "l">> THEN "Residential"
    ELSE IF s = <<"C", "o", "m", "m", "e", "r", "c", "i", "a", "l">> THEN "Commercial"
    ELSE IF s = << >> THEN "Unknown" ELSE ""

\* the RDI value an rdi string stands for up to the case of its letters,
\* "" if none
RdiOf(s) ==
    IF SameLetters(s, <<"r", "e", "s", "i", "d", "e", "n", "t", "i", "a", "l">>) THEN "Residential"
    ELSE IF SameLetters(s, <<"c", "o", "m", "m", "e", "r", "c", "i", "a", "l">>) THEN "Commercial"
    ELSE IF s = << >> THEN "Unknown" ELSE ""

\* a response has been mapped
Mapped == parse.kind = "additional_info" /\ parse.done

\* C25 (as stated): a response without candidates is an error; otherwise
\* the first candidate decides: the result is Ok exactly when its CMRA
\* string is y or n in either case and its RDI string is "Residential",
\* "Commercial" or empty, and then carries the values they stand for.
C25_RdiSpelledExactly ==
    Mapped =>
        IF parse.in.results = << >> THEN ~parse.out.ok
        ELSE \E cmra \in {CmraOf(parse.in.results[1].analysis.dpv_cmra)} :
             \E rdi \in {RdiExactOf(parse.in.results[1].metadata.rdi)} :
                /\ parse.out.ok <=> (cmra # "" /\ rdi # "")
                /\ parse.out.ok => parse.out.val = [cmra |-> cmra, rdi |-> rdi]

\* C25 (amended): as above, with the RDI string "residential" or
\* "commercial" in any case of its letters, or empty; every other CMRA or
\* RDI string is an error, and the other candidates are never looked at.
C25_FirstCandidateMapped ==
    Mapped =>
        IF parse.in.results = << >> THEN ~parse.out.ok
        ELSE \E cmra \in {CmraOf(parse.in.results[1].analysis.dpv_cmra)} :
             \E rdi \in {RdiOf(parse.in.results[1].metadata.rdi)} :
                /\ parse.out.ok <=> (cmra # "" /\ rdi # "")
                /\ parse.out.ok => parse.out.val = [cmra |-> cmra, rdi |-> rdi]
                /\ ~parse.out.ok =>
                      parse.out.val = IF cmra = "" THEN "failed to parse CMRA"
                                      ELSE "failed to parse RDI"

\* a response whose first candidate says "y" and "RESIDENTIAL" and whose
\* second one says Y and nothing has been mapped to Y and Residential
C25_Witness ==
    /\ Mapped
    /\ Len(parse.in.results) = 2
    /\ parse.in.results[1] = Candidate(<<"y">>, <<"R", "E", "S", "I", "D", "E", "N", "T", "I", "A", "L">>)
    /\ parse.in.results[2] = Candidate(<<"Y">>, << >>)
    /\ parse.out = [ok |-> TRUE, val |-> [cmra |-> "Y", rdi |-> "Residential"]]

\* a response whose first candidate has an RDI string that stands for
\* nothing, and a response without candidates, are errors
C25_WitnessError ==
    /\ Mapped
    /\ ~parse.out.ok
    /\ \/ parse.in.results = << >>
       \/ /\ parse.in.results # << >>
          /\ parse.in.results[1] = Candidate(<<"N">>, <<"B", "u", "s", "i", "n", "e", "s", "s">>)

====
